---- MODULE Spec2Model ----
(***************************************************************************)
(* A model of pyrion's chain reader (pyrion/io/chain.py) and of the score  *)
(* ranking of an alignment collection                                      *)
(* (pyrion/core/genome_alignment_auxiliary.py).                            *)
(*                                                                         *)
(* Bytes are sequences of one-character strings.  An Optional[int] is a    *)
(* sequence of length 0 (None) or 1 (the value).                           *)
(***************************************************************************)
EXTENDS Integers, Sequences, FiniteSets, TLC

VARIABLES
    \* ---- the file handed to read_chain_file and its arguments
    content,            \* the logical (decompressed) bytes of the file
    is_gzipped,         \* file_path.suffix.lower() == '.gz'
    small,              \* file_path.stat().st_size <= 16 MB
    min_score,          \* Optional[int]
    \* ---- _iter_chain_chunks: the generator's position and locals
    tpc,                \* "start", "bytes", "stream", "exhausted"; "given": no file, chunk_iter
    parts,              \* _iter_chunks_from_bytes: the parts still to visit
    lines,              \* _iter_chunks_from_stream: the lines still to read
    current,            \* _iter_chunks_from_stream: List[bytes]
    header_score_ok,    \* _iter_chunks_from_stream: bool
    handles,            \* the file and decompression handles that are open
    yielded,            \* history: every chunk the generator has yielded
    \* ---- _parse_chunks_in_batches
    turn,               \* "tok": the generator runs; "consumer": the loop body; "done"
    pending,            \* the chunk just yielded, not yet appended (<<>> or <<chunk>>)
    chunk_iter,         \* a chunk iterator given directly: the chunks still to come
    max_chunks_per_call,
    batch,
    results,
    calls,              \* history: the batch of every parse_many_chain_chunks call
    collection,         \* what read_chain_file returned: None, or Some(alignments)
    \* ---- sort_alignments_by_score
    alignments,         \* alignments_collection.alignments
    max_elems,          \* the argument of the last call (Optional[int])
    sorted_tuples,      \* what the last call returned
    ranked,             \* whether a call has returned
    \* ---- PyrionConfig and the "pyrion" logger
    config,             \* the fields of the PyrionConfig instance
    logger,             \* logging.getLogger("pyrion"): its level and handlers
    last_call,          \* the last configuration call: its name, argument, outcome
    \* ---- project_intervals_through_chain
    chain_blocks,       \* the block list, rows (t_start, t_end, q_start, q_end)
    intervals,          \* the query intervals, rows (start, end)
    projected,          \* what the last call returned: None, or Some(results)
    \* ---- parse_many_chain_chunks on chunks written from a description
    described           \* per chunk: the numbers its text was written from

vars == <<content, is_gzipped, small, min_score, tpc, parts, lines, current,
          header_score_ok, yielded, turn, pending, chunk_iter,
          max_chunks_per_call, batch, results, calls,
          handles, collection,
          alignments, max_elems, sorted_tuples, ranked,
          config, logger, last_call, chain_blocks, intervals, projected,
          described>>

tok_locals == <<parts, lines, current, header_score_ok>>
file_vars == <<content, is_gzipped, small, min_score, max_chunks_per_call>>
batch_vars == <<batch, results, calls>>
rank_vars == <<alignments, max_elems, sorted_tuples, ranked>>
config_vars == <<config, logger, last_call>>
project_vars == <<chain_blocks, intervals, projected>>
\* what the chain reader never touches
ext_vars == <<config_vars, project_vars, described>>

-----------------------------------------------------------------------------
(* Optional values *)

None == <<>>

Some(x) == <<x>>

-----------------------------------------------------------------------------
(* Python bytes operations, as the reader uses them *)

\* bytes.isspace() characters that can occur in the modelled inputs
Whitespace == {" ", "\n", "\t", "\r"}

Digits == {"0", "1", "2", "3", "4", "5", "6", "7", "8", "9"}

DigitValue(c) ==
    CASE c = "0" -> 0 [] c = "1" -> 1 [] c = "2" -> 2 [] c = "3" -> 3
      [] c = "4" -> 4 [] c = "5" -> 5 [] c = "6" -> 6 [] c = "7" -> 7
      [] c = "8" -> 8 [] c = "9" -> 9

\* the record-header marker b"chain "
Marker == <<"c", "h", "a", "i", "n", " ">>

SetMin(S) == CHOOSE x \in S : \A y \in S : x <= y

SetMax(S) == CHOOSE x \in S : \A y \in S : x >= y

\* b.startswith(p)
StartsWith(b, p) == Len(b) >= Len(p) /\ SubSeq(b, 1, Len(p)) = p

\* b.strip(): leading and trailing whitespace removed
Strip(b) ==
    LET keep == {i \in 1..Len(b) : b[i] \notin Whitespace}
    IN  IF keep = {} THEN <<>> ELSE SubSeq(b, SetMin(keep), SetMax(keep))

\* b"".join(list)
RECURSIVE Join(_)
Join(list) == IF list = <<>> THEN <<>> ELSE Head(list) \o Join(Tail(list))

\* iterating a binary stream: the lines, each with its b"\n" kept
RECURSIVE SplitLines(_)
SplitLines(b) ==
    LET nls == {i \in 1..Len(b) : b[i] = "\n"}
    IN  IF b = <<>> THEN <<>>
        ELSE IF nls = {} THEN <<b>>
        ELSE <<SubSeq(b, 1, SetMin(nls))>>
                 \o SplitLines(SubSeq(b, SetMin(nls) + 1, Len(b)))

\* b.split(sep): the parts between the occurrences of sep, left to right
RECURSIVE SplitOn(_, _)
SplitOn(b, sep) ==
    LET at == {i \in 1..(Len(b) - Len(sep) + 1) :
                   SubSeq(b, i, i + Len(sep) - 1) = sep}
    IN  IF at = {} THEN <<b>>
        ELSE <<SubSeq(b, 1, SetMin(at) - 1)>>
                 \o SplitOn(SubSeq(b, SetMin(at) + Len(sep), Len(b)), sep)

\* b.split(): the maximal runs of non-whitespace
RECURSIVE SplitWhitespace(_)
SplitWhitespace(b) ==
    LET s == {i \in 1..Len(b) : b[i] \notin Whitespace}
    IN  IF s = {} THEN <<>>
        ELSE LET first == SetMin(s)
                 ends == {i \in first..Len(b) :
                              i = Len(b) \/ b[i + 1] \in Whitespace}
                 last == SetMin(ends)
             IN  <<SubSeq(b, first, last)>>
                     \o SplitWhitespace(SubSeq(b, last + 1, Len(b)))

\* chunk.split(b"\n", 1)[0]
FirstLine(b) ==
    LET nls == {i \in 1..Len(b) : b[i] = "\n"}
    IN  IF nls = {} THEN b ELSE SubSeq(b, 1, SetMin(nls) - 1)

RECURSIVE DecimalValue(_)
DecimalValue(ds) ==
    IF ds = <<>> THEN 0
    ELSE 10 * DecimalValue(SubSeq(ds, 1, Len(ds) - 1)) + DigitValue(ds[Len(ds)])

\* int(token): Some(value), or None where Python raises ValueError
ParseInt(token) ==
    LET signed == token # <<>> /\ token[1] \in {"+", "-"}
        ds == IF signed THEN Tail(token) ELSE token
    IN  IF ds = <<>> \/ \E i \in 1..Len(ds) : ds[i] \notin Digits THEN None
        ELSE IF signed /\ token[1] = "-" THEN Some(0 - DecimalValue(ds))
        ELSE Some(DecimalValue(ds))

-----------------------------------------------------------------------------
(* The chunk tokenizer *)

\* header_meets_min_score returning False when the score does not parse
header_meets_min_score_strict(header_line, score) ==
    LET tokens == SplitWhitespace(header_line)
    IN  IF Len(tokens) > 1
        THEN LET v == ParseInt(tokens[2])
             IN  IF v = None THEN FALSE ELSE v[1] >= score
        ELSE TRUE

\* header_meets_min_score comparing with > for >=
header_meets_min_score_above(header_line, score) ==
    LET tokens == SplitWhitespace(header_line)
    IN  IF Len(tokens) > 1
        THEN LET v == ParseInt(tokens[2])
             IN  IF v = None THEN TRUE ELSE v[1] > score
        ELSE TRUE

\* header_meets_min_score returning False for a header with no score field
header_meets_min_score_no_field(header_line, score) ==
    LET tokens == SplitWhitespace(header_line)
    IN  IF Len(tokens) > 1
        THEN LET v == ParseInt(tokens[2])
             IN  IF v = None THEN TRUE ELSE v[1] >= score
        ELSE FALSE


\* _header_meets_min_score(header_line, min_score), min_score an int
header_meets_min_score(header_line, score) ==
    LET tokens == SplitWhitespace(header_line)
    IN  IF Len(tokens) > 1
        THEN LET v == ParseInt(tokens[2])
             IN  IF v = None THEN TRUE      \* except Exception: return True
                 ELSE v[1] >= score
        ELSE TRUE

\* One pass of the loop of _iter_chunks_from_bytes over `part`: what it yields
bytes_part(part, ms) ==
    LET chunk == Strip(Marker \o part)
    IN  IF chunk = <<>> THEN <<>>
        ELSE IF ms # None /\ ~header_meets_min_score(FirstLine(chunk), ms[1])
        THEN <<>>
        ELSE <<chunk>>

\* _iter_chunks_from_bytes(content, min_score): everything it yields
RECURSIVE bytes_parts(_, _)
bytes_parts(ps, ms) ==
    IF ps = <<>> THEN <<>>
    ELSE bytes_part(Head(ps), ms) \o bytes_parts(Tail(ps), ms)

iter_chunks_from_bytes(bytes, ms) == bytes_parts(Tail(SplitOn(bytes, Marker)), ms)

\* stream_line leaving the lines after a header out of the chunk
stream_line_no_body(cur, ok, line, ms) ==
    IF StartsWith(line, Marker)
    THEN [out |-> IF cur # <<>> /\ ok THEN <<Strip(Join(cur))>> ELSE <<>>,
          current |-> <<line>>,
          header_score_ok |-> IF ms # None
                              THEN header_meets_min_score(line, ms[1])
                              ELSE TRUE]
    ELSE [out |-> <<>>, current |-> cur, header_score_ok |-> ok]

\* One pass of the loop of _iter_chunks_from_stream over `line`: the locals after
\* it and what it yields
stream_line(cur, ok, line, ms) ==
    IF StartsWith(line, Marker)
    THEN [out |-> IF cur # <<>> /\ ok THEN <<Strip(Join(cur))>> ELSE <<>>,
          current |-> <<line>>,
          header_score_ok |-> IF ms # None
                              THEN header_meets_min_score(line, ms[1])
                              ELSE TRUE]
    ELSE [out |-> <<>>,
          current |-> IF cur # <<>> THEN Append(cur, line) ELSE cur,
          header_score_ok |-> ok]

\* stream_eof without the emission of the last chunk
stream_eof_no_flush(cur, ok) == <<>>

\* _iter_chunks_from_stream at EOF: what it yields
stream_eof(cur, ok) == IF cur # <<>> /\ ok THEN <<Strip(Join(cur))>> ELSE <<>>

RECURSIVE stream_lines(_, _, _, _)
stream_lines(ls, cur, ok, ms) ==
    IF ls = <<>> THEN stream_eof(cur, ok)
    ELSE LET s == stream_line(cur, ok, Head(ls), ms)
         IN  s.out \o stream_lines(Tail(ls), s.current, s.header_score_ok, ms)

\* _iter_chunks_from_stream(bytestream, min_score): everything it yields
iter_chunks_from_stream(bytes, ms) == stream_lines(SplitLines(bytes), <<>>, TRUE, ms)

\* _iter_chain_chunks takes the load-whole-then-split path
FastPath(gz, sm) == gz /\ sm

\* _iter_chain_chunks(file_path, min_score): everything it yields
iter_chain_chunks(bytes, gz, sm, ms) ==
    IF FastPath(gz, sm) THEN iter_chunks_from_bytes(bytes, ms)
    ELSE iter_chunks_from_stream(bytes, ms)

-----------------------------------------------------------------------------
(* The record parser (the native _chainparser extension), from its contract *)

\* A body line holds block_size target_gap query_gap; the last only block_size
BodyFields(line, last) ==
    LET f == SplitWhitespace(line)
    IN  IF Len(f) # (IF last THEN 1 ELSE 3) THEN None
        ELSE IF \E i \in 1..Len(f) : ParseInt(f[i]) = None THEN None
        ELSE IF \E i \in 1..Len(f) : ParseInt(f[i])[1] < 0 THEN None
        ELSE Some([i \in 1..Len(f) |-> ParseInt(f[i])[1]])

\* Blocks advancing its cursors by block_size only
RECURSIVE Blocks_no_gap(_, _, _)
Blocks_no_gap(body, t, q) ==
    IF body = <<>> THEN Some(<<>>)
    ELSE LET f == BodyFields(Head(body), Len(body) = 1)
         IN  IF f = None THEN None
             ELSE LET size == f[1][1]
                      rest == IF Len(body) = 1 THEN Some(<<>>)
                              ELSE Blocks_no_gap(Tail(body), t + size, q + size)
                  IN  IF rest = None THEN None
                      ELSE Some(<<<<t, t + size, q, q + size>>>> \o rest[1])

\* The blocks of the body lines from cursors (t, q); None when a line is malformed
RECURSIVE Blocks(_, _, _)
Blocks(body, t, q) ==
    IF body = <<>> THEN Some(<<>>)
    ELSE LET f == BodyFields(Head(body), Len(body) = 1)
         IN  IF f = None THEN None
             ELSE LET size == f[1][1]
                      rest == IF Len(body) = 1 THEN Some(<<>>)
                              ELSE Blocks(Tail(body), t + size + f[1][2],
                                          q + size + f[1][3])
                  IN  IF rest = None THEN None
                      ELSE Some(<<<<t, t + size, q, q + size>>>> \o rest[1])

\* The header fields that must be integers: score, sizes, starts, ends, id
NumericFields == {2, 4, 6, 7, 9, 11, 12, 13}

\* parse_chain_chunk(chunk[, min_score]): <<record>>, or <<>> when the chunk is
\* malformed or its score is below min_score
parse_chain_chunk(chunk, ms) ==
    LET ls == SplitLines(chunk)
        h == IF ls = <<>> THEN <<>> ELSE SplitWhitespace(ls[1])
    IN  IF Len(h) # 13 \/ h[1] # Strip(Marker) THEN <<>>
        ELSE IF \E i \in NumericFields : ParseInt(h[i]) = None THEN <<>>
        ELSE IF Len(ls) < 2 THEN <<>>
        ELSE LET score == ParseInt(h[2])[1]
                 b == Blocks(Tail(ls), ParseInt(h[6])[1], ParseInt(h[11])[1])
             IN  IF b = None THEN <<>>
                 ELSE IF ms # None /\ score < ms[1] THEN <<>>
                 ELSE <<[chain_id |-> ParseInt(h[13])[1], score |-> score,
                         blocks |-> b[1]]>>

\* parse_many_chain_chunks(batch[, min_score]): the records of the chunks, in order
RECURSIVE parse_many_chain_chunks(_, _)
parse_many_chain_chunks(chunks, ms) ==
    IF chunks = <<>> THEN <<>>
    ELSE parse_chain_chunk(Head(chunks), ms)
             \o parse_many_chain_chunks(Tail(chunks), ms)

\* The parser's hard limit on the chunks of one call
PARSER_MAX_CHUNKS == 1000000

-----------------------------------------------------------------------------
(* The batch assembler *)

\* read_chain_file's batch size
MAX_CHUNKS_PER_CALL == 500000

\* flush_batch without batch.clear()
flush_batch_no_clear(b, res, cs, ms) ==
    IF b = <<>> THEN [batch |-> b, results |-> res, calls |-> cs]
    ELSE [batch |-> b,
          results |-> res \o parse_many_chain_chunks(b, ms),
          calls |-> Append(cs, b)]

\* flush_batch assigning the call's records to results for extending results
flush_batch_assign(b, res, cs, ms) ==
    IF b = <<>> THEN [batch |-> b, results |-> res, calls |-> cs]
    ELSE [batch |-> <<>>,
          results |-> parse_many_chain_chunks(b, ms),
          calls |-> Append(cs, b)]

\* _flush_batch(): the locals of _parse_chunks_in_batches after it
flush_batch(b, res, cs, ms) ==
    IF b = <<>> THEN [batch |-> b, results |-> res, calls |-> cs]
    ELSE [batch |-> <<>>,
          results |-> res \o parse_many_chain_chunks(b, ms),
          calls |-> Append(cs, b)]

\* batch_chunk flushing only when the batch has grown beyond the maximum
batch_chunk_late(b, res, cs, chunk, max, ms) ==
    IF Len(Append(b, chunk)) > max
    THEN flush_batch(Append(b, chunk), res, cs, ms)
    ELSE [batch |-> Append(b, chunk), results |-> res, calls |-> cs]

\* One pass of the loop of _parse_chunks_in_batches over `chunk`
batch_chunk(b, res, cs, chunk, max, ms) ==
    IF Len(Append(b, chunk)) >= max
    THEN flush_batch(Append(b, chunk), res, cs, ms)
    ELSE [batch |-> Append(b, chunk), results |-> res, calls |-> cs]

RECURSIVE batch_chunks(_, _, _, _, _, _)
batch_chunks(chunks, b, res, cs, max, ms) ==
    IF chunks = <<>> THEN flush_batch(b, res, cs, ms)
    ELSE LET s == batch_chunk(b, res, cs, Head(chunks), max, ms)
         IN  batch_chunks(Tail(chunks), s.batch, s.results, s.calls, max, ms)

\* _parse_chunks_in_batches(chunk_iter, max_chunks_per_call, min_score)
parse_chunks_in_batches(chunks, max, ms) ==
    batch_chunks(chunks, <<>>, <<>>, <<>>, max, ms).results

\* read_chain_file(file_path, min_score): the alignments of the collection
read_chain_file(bytes, gz, sm, ms) ==
    parse_chunks_in_batches(iter_chain_chunks(bytes, gz, sm, ms),
                            MAX_CHUNKS_PER_CALL, ms)

-----------------------------------------------------------------------------
(* The inputs the model is run on *)

\* How many pieces a file content is made of, at most
MaxPieces == 3

\* The rest of a header line after its score: names, sizes, strands, starts and
\* ends of target and query, and the record id
HeaderRest(id) ==
    <<" ", "a", " ", "9", " ", "+", " ", "0", " ", "4", " ",
      "b", " ", "9", " ", "+", " ", "0", " ", "4", " ">> \o id \o <<"\n">>

\* A whole record: header line and one body line holding one block size
RecordText(score, id) == Marker \o score \o HeaderRest(id) \o <<"4", "\n">>

\* The pieces: well-formed records of score 1 and 3, a record whose score is not a
\* number, a header with no score field, a line with no line end (the next
\* piece continues it) and a line end
Pieces ==
    {RecordText(<<"1">>, <<"7">>), RecordText(<<"3">>, <<"8">>),
     RecordText(<<"x">>, <<"9">>), Marker \o <<"\n">>, <<"5">>, <<"\n">>}

Contents ==
    {Join(ps) : ps \in UNION {[1..n -> Pieces] : n \in 0..MaxPieces}}

\* The min_score arguments: none, and the score of one of the records
MinScores == {None, Some(3)}

\* Every chunk the generator has handed to the loop and the loop has appended
Taken == IF pending = <<>> THEN yielded ELSE SubSeq(yielded, 1, Len(yielded) - 1)

-----------------------------------------------------------------------------
(* read_chain_file: the generator and the batching loop, step by step *)

NoRanking ==
    /\ alignments = <<>>
    /\ max_elems = None
    /\ sorted_tuples = <<>>
    /\ ranked = FALSE

NoConfig ==
    /\ config = <<>>
    /\ logger = <<>>
    /\ last_call = <<>>

NoProjection ==
    /\ chain_blocks = <<>>
    /\ intervals = <<>>
    /\ projected = None

NoExt == NoConfig /\ NoProjection /\ described = <<>>

\* exit_stream closing the handle only where the block is left by a return
exit_stream_on_return(hs, how) == IF how = "return" THEN hs \ {"f"} ELSE hs

\* read_failed returning what was parsed so far
read_failed_partial(res) == Some(res)

\* with opener(file_path, 'rb') as f: the handle is open inside the block
open_stream(hs) == hs \cup {"f"}

\* the with block of _iter_chain_chunks is left: `how` is "return" (the stream
\* is exhausted), "close" (the generator is closed at a yield) or "error" (a
\* read raised); the handle is closed on each
exit_stream(hs, how) == hs \ {"f"}

\* _read_gzip: its with block closes the handle on return and on an error
read_gzip_handles(hs, ok) == hs \ {"gf"}

\* An exception from the chunk iterator leaves the loop of
\* _parse_chunks_in_batches and read_chain_file: nothing is returned
read_failed(res) == None

Init ==
    /\ content \in Contents
    /\ is_gzipped \in BOOLEAN
    /\ small \in BOOLEAN
    /\ min_score \in MinScores
    /\ max_chunks_per_call = MAX_CHUNKS_PER_CALL
    /\ tpc = "start"
    /\ parts = <<>>
    /\ lines = <<>>
    /\ current = <<>>
    /\ header_score_ok = TRUE
    /\ yielded = <<>>
    /\ turn = "tok"
    /\ pending = <<>>
    /\ chunk_iter = <<>>
    /\ batch = <<>>
    /\ results = <<>>
    /\ calls = <<>>
    /\ handles = {}
    /\ collection = None
    /\ NoRanking
    /\ NoExt

\* The generator yields `out` (<<>>: nothing, it runs on) and goes to `next`
Yield(out, next) ==
    /\ tpc' = next
    /\ yielded' = yielded \o out
    /\ pending' = out
    /\ turn' = IF out = <<>> THEN "tok" ELSE "consumer"

\* _iter_chain_chunks up to the first pass of a loop: the fast path reads and
\* splits the whole content, the other opens the stream
OpenFile ==
    /\ turn = "tok" /\ tpc = "start"
    /\ IF FastPath(is_gzipped, small)
       THEN /\ parts' = Tail(SplitOn(content, Marker))
            /\ handles' = read_gzip_handles(handles, TRUE)
            /\ UNCHANGED <<lines, current, header_score_ok>>
            /\ Yield(<<>>, "bytes")
       ELSE /\ lines' = SplitLines(content)
            /\ handles' = open_stream(handles)
            /\ current' = <<>>
            /\ header_score_ok' = TRUE
            /\ UNCHANGED parts
            /\ Yield(<<>>, "stream")
    /\ UNCHANGED <<file_vars, chunk_iter, batch_vars, collection, rank_vars, ext_vars>>

\* _iter_chunks_from_bytes: one part
BytesPart ==
    /\ turn = "tok" /\ tpc = "bytes" /\ parts # <<>>
    /\ parts' = Tail(parts)
    /\ Yield(bytes_part(Head(parts), min_score), "bytes")
    /\ UNCHANGED <<lines, current, header_score_ok, handles>>
    /\ UNCHANGED <<file_vars, chunk_iter, batch_vars, collection, rank_vars, ext_vars>>

\* _iter_chunks_from_bytes: the loop ends, the generator returns
BytesEnd ==
    /\ turn = "tok" /\ tpc = "bytes" /\ parts = <<>>
    /\ Yield(<<>>, "exhausted")
    /\ UNCHANGED <<tok_locals, handles, file_vars, chunk_iter, batch_vars, collection,
                   rank_vars, ext_vars>>

\* _iter_chunks_from_stream: one line
StreamLine ==
    /\ turn = "tok" /\ tpc = "stream" /\ lines # <<>>
    /\ LET s == stream_line(current, header_score_ok, Head(lines), min_score)
       IN  /\ lines' = Tail(lines)
           /\ current' = s.current
           /\ header_score_ok' = s.header_score_ok
           /\ Yield(s.out, "stream")
    /\ UNCHANGED <<parts, handles>>
    /\ UNCHANGED <<file_vars, chunk_iter, batch_vars, collection, rank_vars, ext_vars>>

\* _iter_chunks_from_stream: EOF. With a last chunk to yield the generator is
\* suspended once more, inside the with block; with none it returns and the
\* with block is left
StreamEOF ==
    /\ turn = "tok" /\ tpc = "stream" /\ lines = <<>>
    /\ IF stream_eof(current, header_score_ok) # <<>>
       THEN /\ Yield(stream_eof(current, header_score_ok), "stream_eof")
            /\ UNCHANGED handles
       ELSE /\ Yield(<<>>, "exhausted")
            /\ handles' = exit_stream(handles, "return")
    /\ UNCHANGED <<tok_locals, file_vars, chunk_iter, batch_vars, collection,
                   rank_vars, ext_vars>>

\* _iter_chunks_from_stream resumed after its last yield: it returns and the
\* with block of _iter_chain_chunks is left
StreamReturn ==
    /\ turn = "tok" /\ tpc = "stream_eof"
    /\ Yield(<<>>, "exhausted")
    /\ handles' = exit_stream(handles, "return")
    /\ UNCHANGED <<tok_locals, file_vars, chunk_iter, batch_vars, collection,
                   rank_vars, ext_vars>>

\* The fast path raises (stat, gzip.open or read in _read_gzip): the except
\* clause passes and the stream is opened
FastReadFail ==
    /\ turn = "tok" /\ tpc = "start"
    /\ FastPath(is_gzipped, small)
    /\ lines' = SplitLines(content)
    /\ handles' = open_stream(read_gzip_handles(handles, FALSE))
    /\ current' = <<>>
    /\ header_score_ok' = TRUE
    /\ Yield(<<>>, "stream")
    /\ UNCHANGED <<parts, file_vars, chunk_iter, batch_vars, collection, rank_vars,
                   ext_vars>>

\* The fast path raises an Exception inside `yield from`, while the loop of
\* _iter_chunks_from_bytes works on its next part (or thrown in where it is
\* suspended): the try block still encloses it, so the except clause passes
\* and the stream is opened and read from its first line
FastIterFail ==
    /\ turn = "tok" /\ tpc = "bytes" /\ parts # <<>>
    /\ lines' = SplitLines(content)
    /\ handles' = open_stream(handles)
    /\ current' = <<>>
    /\ header_score_ok' = TRUE
    /\ Yield(<<>>, "stream")
    /\ UNCHANGED <<parts, file_vars, chunk_iter, batch_vars, collection, rank_vars,
                   ext_vars>>

\* opener(file_path, 'rb') raises (on the fast path: after what it tried has
\* raised too): the exception leaves the generator and read_chain_file
OpenFail ==
    /\ turn = "tok" /\ tpc = "start"
    /\ tpc' = "failed"
    /\ turn' = "raised"
    /\ handles' = read_gzip_handles(handles, FALSE)
    /\ collection' = read_failed(results)
    /\ UNCHANGED <<yielded, pending, tok_locals, file_vars, chunk_iter, batch_vars,
                   rank_vars, ext_vars>>

\* Reading the next line raises (a truncated or corrupt stream): the with block
\* is left and the exception leaves the generator and read_chain_file
StreamFail ==
    /\ turn = "tok" /\ tpc = "stream"
    /\ tpc' = "failed"
    /\ turn' = "raised"
    /\ handles' = exit_stream(handles, "error")
    /\ collection' = read_failed(results)
    /\ UNCHANGED <<yielded, pending, tok_locals, file_vars, chunk_iter, batch_vars,
                   rank_vars, ext_vars>>

\* The consumer stops and closes the generator: before its first step, or where
\* it is suspended at a yield (GeneratorExit leaves the with block, if entered)
CloseGenerator ==
    /\ \/ turn = "tok" /\ tpc = "start"
       \/ turn = "consumer" /\ tpc \in {"bytes", "stream", "stream_eof"}
    /\ handles' = IF tpc \in {"stream", "stream_eof"}
                  THEN exit_stream(handles, "close") ELSE handles
    /\ tpc' = "closed"
    /\ turn' = "stopped"
    /\ UNCHANGED <<yielded, pending, tok_locals, file_vars, chunk_iter, batch_vars,
                   collection, rank_vars, ext_vars>>

\* A chunk iterator that is no file: the next chunk
IterNext ==
    /\ turn = "tok" /\ tpc = "given" /\ chunk_iter # <<>>
    /\ chunk_iter' = Tail(chunk_iter)
    /\ Yield(<<Head(chunk_iter)>>, "given")
    /\ UNCHANGED <<tok_locals, handles, file_vars, batch_vars, collection, rank_vars,
                   ext_vars>>

\* _parse_chunks_in_batches: the loop body on the chunk just yielded
BatchChunk ==
    /\ turn = "consumer"
    /\ LET s == batch_chunk(batch, results, calls, pending[1],
                            max_chunks_per_call, min_score)
       IN  /\ batch' = s.batch
           /\ results' = s.results
           /\ calls' = s.calls
    /\ pending' = <<>>
    /\ turn' = "tok"
    /\ UNCHANGED <<tpc, yielded, tok_locals, handles, file_vars, chunk_iter,
                   collection, rank_vars, ext_vars>>

\* _parse_chunks_in_batches: the iterator is exhausted, the last flush, return
BatchEnd ==
    /\ turn = "tok"
    /\ tpc = "exhausted" \/ (tpc = "given" /\ chunk_iter = <<>>)
    /\ LET s == flush_batch(batch, results, calls, min_score)
       IN  /\ batch' = s.batch
           /\ results' = s.results
           /\ calls' = s.calls
           /\ collection' = Some(s.results)
    /\ turn' = "done"
    /\ UNCHANGED <<tpc, yielded, pending, tok_locals, handles, file_vars, chunk_iter,
                   rank_vars, ext_vars>>

Next ==
    \/ OpenFile
    \/ BytesPart
    \/ BytesEnd
    \/ StreamLine
    \/ StreamEOF
    \/ StreamReturn
    \/ BatchChunk
    \/ BatchEnd

Spec == Init /\ [][Next]_vars

-----------------------------------------------------------------------------
(* read_chain_file on a file whose reads may raise, and a consumer of the    *)
(* generator that may stop early.  Batches of one chunk stand for a file of  *)
(* more chunks than a batch holds.                                           *)

InitIO ==
    /\ content \in Contents
    /\ is_gzipped \in BOOLEAN
    /\ small \in BOOLEAN
    /\ min_score \in MinScores
    /\ max_chunks_per_call \in {1, MAX_CHUNKS_PER_CALL}
    /\ tpc = "start"
    /\ parts = <<>>
    /\ lines = <<>>
    /\ current = <<>>
    /\ header_score_ok = TRUE
    /\ yielded = <<>>
    /\ turn = "tok"
    /\ pending = <<>>
    /\ chunk_iter = <<>>
    /\ batch = <<>>
    /\ results = <<>>
    /\ calls = <<>>
    /\ handles = {}
    /\ collection = None
    /\ NoRanking
    /\ NoExt

NextIO ==
    \/ OpenFile
    \/ FastReadFail
    \/ FastIterFail
    \/ OpenFail
    \/ BytesPart
    \/ BytesEnd
    \/ StreamLine
    \/ StreamEOF
    \/ StreamReturn
    \/ StreamFail
    \/ CloseGenerator
    \/ BatchChunk
    \/ BatchEnd

SpecIO == InitIO /\ [][NextIO]_vars

-----------------------------------------------------------------------------
(* _parse_chunks_in_batches on a chunk sequence and a batch size of its own *)

\* How many chunks the iterator holds, at most
MaxChunks == 3

\* The largest batch size tried, besides read_chain_file's
MaxBatch == 3

\* The chunks: the records of the pieces as the tokenizer yields them, and a
\* header with nothing after it
Chunks ==
    {Strip(RecordText(<<"1">>, <<"7">>)), Strip(RecordText(<<"3">>, <<"8">>)),
     Strip(RecordText(<<"x">>, <<"9">>)), Strip(Marker)}

InitBatch ==
    /\ content = <<>>
    /\ is_gzipped = FALSE
    /\ small = FALSE
    /\ min_score \in MinScores
    /\ max_chunks_per_call \in (1..MaxBatch) \cup {MAX_CHUNKS_PER_CALL}
    /\ tpc = "given"
    /\ parts = <<>>
    /\ lines = <<>>
    /\ current = <<>>
    /\ header_score_ok = TRUE
    /\ yielded = <<>>
    /\ turn = "tok"
    /\ pending = <<>>
    /\ chunk_iter \in UNION {[1..n -> Chunks] : n \in 0..MaxChunks}
    /\ batch = <<>>
    /\ results = <<>>
    /\ calls = <<>>
    /\ handles = {}
    /\ collection = None
    /\ NoRanking
    /\ NoExt

NextBatch ==
    \/ IterNext
    \/ BatchChunk
    \/ BatchEnd

SpecBatch == InitBatch /\ [][NextBatch]_vars

-----------------------------------------------------------------------------
(* sort_alignments_by_score *)

\* How many records a collection holds, at most
MaxAlignments == 3

\* The largest max_elems tried, and the smallest, negated
MaxLimit == 4

ChainIds == {1, 2, 3}

Scores == {10, 20}

Alignments == [chain_id : ChainIds, score : Scores]

Limits == {None} \cup {Some(k) : k \in (0 - MaxLimit)..MaxLimit}

\* InsertByScore putting x ahead of the tuples of its own score
InsertByScore_unstable(sorted, x) ==
    LET before == {i \in 1..Len(sorted) : sorted[i][2] > x[2]}
        k == IF before = {} THEN 0 ELSE SetMax(before)
    IN  SubSeq(sorted, 1, k) \o <<x>> \o SubSeq(sorted, k + 1, Len(sorted))

\* sorted(tuples, key=lambda x: x[1], reverse=True): x goes behind every tuple
\* of the sorted prefix whose score is not below its own
InsertByScore(sorted, x) ==
    LET before == {i \in 1..Len(sorted) : sorted[i][2] >= x[2]}
        k == IF before = {} THEN 0 ELSE SetMax(before)
    IN  SubSeq(sorted, 1, k) \o <<x>> \o SubSeq(sorted, k + 1, Len(sorted))

RECURSIVE SortedByScore(_)
SortedByScore(tuples) ==
    IF tuples = <<>> THEN <<>>
    ELSE InsertByScore(SortedByScore(SubSeq(tuples, 1, Len(tuples) - 1)),
                       tuples[Len(tuples)])

\* SliceTo keeping the entry at index k as well
SliceTo_inclusive(seq, k) ==
    IF k >= 0 THEN SubSeq(seq, 1, IF k + 1 < Len(seq) THEN k + 1 ELSE Len(seq))
    ELSE SubSeq(seq, 1, IF Len(seq) + k > 0 THEN Len(seq) + k ELSE 0)

\* seq[:k]
SliceTo(seq, k) ==
    IF k >= 0 THEN SubSeq(seq, 1, IF k < Len(seq) THEN k ELSE Len(seq))
    ELSE SubSeq(seq, 1, IF Len(seq) + k > 0 THEN Len(seq) + k ELSE 0)

\* sort_alignments_by_score sorting the collection's own list
sort_alignments_in_place(als, me) ==
    LET score_tuples == [i \in 1..Len(als) |-> <<als[i].chain_id, als[i].score>>]
        sorted == SortedByScore(score_tuples)
    IN  [sorted_tuples |-> IF me # None THEN SliceTo(sorted, me[1]) ELSE sorted,
         alignments |-> [i \in 1..Len(sorted) |->
                            [chain_id |-> sorted[i][1], score |-> sorted[i][2]]]]

\* sort_alignments_by_score(alignments_collection, max_elems): what it returns
\* and the collection's alignments after the call
sort_alignments_by_score(als, me) ==
    LET score_tuples == [i \in 1..Len(als) |-> <<als[i].chain_id, als[i].score>>]
        sorted == SortedByScore(score_tuples)
    IN  [sorted_tuples |-> IF me # None THEN SliceTo(sorted, me[1]) ELSE sorted,
         alignments |-> als]

InitRank ==
    /\ alignments \in UNION {[1..n -> Alignments] : n \in 0..MaxAlignments}
    /\ max_elems = None
    /\ sorted_tuples = <<>>
    /\ ranked = FALSE
    /\ content = <<>>
    /\ is_gzipped = FALSE
    /\ small = FALSE
    /\ min_score = None
    /\ max_chunks_per_call = MAX_CHUNKS_PER_CALL
    /\ tpc = "given"
    /\ parts = <<>>
    /\ lines = <<>>
    /\ current = <<>>
    /\ header_score_ok = TRUE
    /\ yielded = <<>>
    /\ turn = "done"
    /\ pending = <<>>
    /\ chunk_iter = <<>>
    /\ batch = <<>>
    /\ results = <<>>
    /\ calls = <<>>
    /\ handles = {}
    /\ collection = None
    /\ NoExt

\* A call of sort_alignments_by_score on the collection
SortAlignments ==
    /\ \E me \in Limits :
          LET r == sort_alignments_by_score(alignments, me)
          IN  /\ max_elems' = me
              /\ sorted_tuples' = r.sorted_tuples
              /\ alignments' = r.alignments
    /\ ranked' = TRUE
    /\ UNCHANGED <<tpc, yielded, turn, pending, tok_locals, handles, file_vars,
                   chunk_iter, batch_vars, collection, ext_vars>>

NextRank == SortAlignments

SpecRank == InitRank /\ [][NextRank]_vars

-----------------------------------------------------------------------------
(* Properties of the chunk tokenizer *)

StreamMode == ~FastPath(is_gzipped, small)

IsPrefix(a, b) == Len(a) <= Len(b) /\ a = SubSeq(b, 1, Len(a))

\* The indices of the lines that start with the marker, ascending
HeaderLines(ls) ==
    LET hs == {i \in 1..Len(ls) : StartsWith(ls[i], Marker)}
    IN  [k \in 1..Cardinality(hs) |->
            CHOOSE i \in hs : Cardinality({j \in hs : j <= i}) = k]

\* One chunk per header line: the lines from it up to the next header line or
\* the end of the stream, stripped
HeaderChunks(bytes) ==
    LET ls == SplitLines(bytes)
        hl == HeaderLines(ls)
        end(k) == IF k = Len(hl) THEN Len(ls) ELSE hl[k + 1] - 1
    IN  [k \in 1..Len(hl) |-> Strip(Join(SubSeq(ls, hl[k], end(k))))]

\* C1: streaming with no min_score yields, in order, exactly one chunk per line
\* that starts with the marker: that line and the lines after it up to the next
\* such line or the end of the stream, stripped; the last one is yielded at the
\* end of the stream and lines before the first header are in no chunk.
C1_StreamChunks ==
    (tpc \in {"stream", "stream_eof", "exhausted"} /\ StreamMode /\ min_score = None)
        => /\ IsPrefix(yielded, HeaderChunks(content))
           /\ tpc = "exhausted" => yielded = HeaderChunks(content)

\* C1's case: a stream with a line before the first header and two headers, the
\* second with a body line closed only by the end of the stream, read to its end
C1_Witness ==
    /\ tpc = "exhausted" /\ StreamMode /\ min_score = None
    /\ ~StartsWith(content, Marker)
    /\ Len(yielded) = 2
    /\ Len(SplitLines(yielded[2])) = 2

\* C2: the load-whole-then-split mode and the streaming mode yield the same
\* chunks, in the same order, for the same content and min_score.
C2_ModesAgree ==
    tpc = "exhausted"
        => /\ yielded = iter_chunks_from_bytes(content, min_score)
           /\ yielded = iter_chunks_from_stream(content, min_score)

\* The header of `chunk` has a second field that is an integer below `score`
ScoreBelow(chunk, score) ==
    LET f == SplitWhitespace(FirstLine(chunk))
    IN  /\ Len(f) >= 2
        /\ ParseInt(f[2]) # None
        /\ ParseInt(f[2])[1] < score

\* The chunks of `chunks` whose header score is not an integer below `score`
KeptChunks(chunks, score) ==
    LET Keep(c) == ~ScoreBelow(c, score)
    IN  SelectSeq(chunks, Keep)

Ids(records) == {records[i].chain_id : i \in 1..Len(records)}

\* C4: the ids read_chain_file returns with a min_score are the ids of the
\* records it returns without one whose score is min_score or more (every record
\* it returns has an integer score).
C4_ScoreFilterEquivalence ==
    (turn = "done" /\ min_score # None)
        => LET all == read_chain_file(content, is_gzipped, small, None)
           IN  Ids(results) =
                   {all[i].chain_id : i \in {j \in 1..Len(all) :
                                                 all[j].score >= min_score[1]}}

\* C4's case: a file with a record below min_score and a record at min_score
C4_Witness ==
    /\ turn = "done" /\ min_score # None
    /\ LET all == read_chain_file(content, is_gzipped, small, None)
       IN  /\ \E i \in 1..Len(all) : all[i].score < min_score[1]
           /\ \E i \in 1..Len(all) : all[i].score = min_score[1]
    /\ results # <<>>

-----------------------------------------------------------------------------
(* Properties of the batch assembler *)

\* C5: every call to the record parser gets at least one chunk and at most
\* max_chunks_per_call; with read_chain_file's batch size that is below the
\* parser's hard limit.
C5_BatchBound ==
    /\ \A i \in 1..Len(calls) :
          /\ 1 <= Len(calls[i])
          /\ Len(calls[i]) <= max_chunks_per_call
          /\ max_chunks_per_call = MAX_CHUNKS_PER_CALL
                 => Len(calls[i]) < PARSER_MAX_CHUNKS
    /\ MAX_CHUNKS_PER_CALL < PARSER_MAX_CHUNKS

\* C5's case: three chunks in batches of two: a full call and a partial one
C5_Witness ==
    /\ turn = "done"
    /\ max_chunks_per_call = 2
    /\ Len(calls) = 2
    /\ Len(calls[1]) = 2
    /\ Len(calls[2]) = 1

\* The records of the calls, call by call
RECURSIVE CallResults(_, _)
CallResults(cs, ms) ==
    IF cs = <<>> THEN <<>>
    ELSE parse_many_chain_chunks(Head(cs), ms) \o CallResults(Tail(cs), ms)

\* C6: the batches of the calls, in call order, followed by the batch buffer are
\* exactly the chunks taken from the iterator; the buffer is empty after each
\* call; results are the calls' records in call order; at the end every chunk of
\* the iterator has been handed over and the records are in chunk order.
C6_BatchOrder ==
    /\ [](/\ Join(calls) \o batch = Taken
          /\ results = CallResults(calls, min_score)
          /\ turn = "done" => /\ batch = <<>>
                              /\ chunk_iter = <<>>
                              /\ Join(calls) = yielded
                              /\ results = parse_many_chain_chunks(yielded, min_score))
    /\ [][calls' # calls => batch' = <<>>]_vars

\* C6's case: three chunks in batches of two, records from both calls
C6_Witness ==
    /\ turn = "done"
    /\ Len(calls) = 2
    /\ Len(calls[1]) = 2
    /\ parse_many_chain_chunks(calls[1], min_score) # <<>>
    /\ parse_many_chain_chunks(calls[2], min_score) # <<>>

\* C7: the result of _parse_chunks_in_batches is the same for every batch size
\* from 1 to the number of chunks.
C7_BatchingInvariance ==
    turn = "done"
        => \A b \in 1..Len(yielded) :
              parse_chunks_in_batches(yielded, b, min_score) = results

\* C7's case: three chunks batched by two, with records from two calls
C7_Witness ==
    /\ turn = "done"
    /\ Len(yielded) = 3
    /\ max_chunks_per_call = 2
    /\ Len(results) >= 2
    /\ parse_many_chain_chunks(calls[2], min_score) # <<>>

-----------------------------------------------------------------------------
(* Properties of the ranking *)

ScoreTuple(a) == <<a.chain_id, a.score>>

\* The 1-1 maps of 1..n
IndexPermutations(n) ==
    {p \in [1..n -> 1..n] : \A i, j \in 1..n : i # j => p[i] # p[j]}

\* C8: with no limit the ranking holds one (chain_id, score) pair per record, by
\* score descending, records of equal score in their insertion order.
C8_Ranking ==
    (ranked /\ max_elems = None)
        => /\ Len(sorted_tuples) = Len(alignments)
           /\ \E p \in IndexPermutations(Len(alignments)) :
                 /\ \A i \in 1..Len(alignments) :
                       sorted_tuples[i] = ScoreTuple(alignments[p[i]])
                 /\ \A i, j \in 1..Len(alignments) :
                       i < j => \/ sorted_tuples[i][2] > sorted_tuples[j][2]
                                \/ /\ sorted_tuples[i][2] = sorted_tuples[j][2]
                                   /\ p[i] < p[j]

\* C8's case: a collection with a lower score ahead of a higher one and two
\* records of equal score and different ids, ranked with no limit
C8_Witness ==
    /\ ranked /\ max_elems = None
    /\ \E i, j \in 1..Len(alignments) :
          i < j /\ alignments[i].score < alignments[j].score
    /\ \E i, j \in 1..Len(alignments) :
          /\ i < j
          /\ alignments[i].score = alignments[j].score
          /\ alignments[i].chain_id # alignments[j].chain_id

\* C9: with a limit >= 0 the ranking is the first min(limit, n) entries of the
\* unlimited ranking: none for 0, all of them for a limit above n.
C9_Truncation ==
    (ranked /\ max_elems # None /\ max_elems[1] >= 0)
        => LET full == sort_alignments_by_score(alignments, None).sorted_tuples
               n == Len(alignments)
               k == IF max_elems[1] < n THEN max_elems[1] ELSE n
           IN  /\ Len(sorted_tuples) = k
               /\ \A i \in 1..k : sorted_tuples[i] = full[i]
               /\ max_elems[1] = 0 => sorted_tuples = <<>>
               /\ max_elems[1] > n => sorted_tuples = full

\* C9's case: three records ranked with limit 2
C9_Witness ==
    /\ ranked /\ max_elems = Some(2)
    /\ Len(alignments) = 3
    /\ Len(sorted_tuples) = 2

\* C10: no call of sort_alignments_by_score changes the collection's records or
\* their order.
C10_CollectionUnchanged == [][alignments' = alignments]_vars

\* C10's case: a call has returned a ranking in another order than the
\* collection's
C10_Witness ==
    /\ ranked /\ max_elems = None
    /\ sorted_tuples # [i \in 1..Len(alignments) |-> ScoreTuple(alignments[i])]

-----------------------------------------------------------------------------
(* Properties of the reader's resources and failures *)

\* The generator of _iter_chain_chunks has terminated
Terminated == tpc \in {"exhausted", "failed", "closed"}

\* C15: once a run of _iter_chain_chunks has ended, by exhaustion, by the
\* consumer closing the generator or by a read error, no handle it opened is open.
C15_HandleReleased == Terminated => handles = {}

\* C15's case: a stream that was open and had yielded a chunk, left by the
\* consumer closing the generator
C15_Witness ==
    /\ tpc = "closed"
    /\ StreamMode
    /\ yielded # <<>>
    /\ lines # <<>>

\* C16: when reading fails, read_chain_file raises and returns no collection,
\* whatever was tokenized and parsed before the failure.
C16_NoPartialResult ==
    /\ turn = "raised" => collection = None
    /\ collection # None => turn = "done" /\ tpc = "exhausted"

\* C16's case: a read fails after a batch has been parsed into records
C16_Witness ==
    /\ turn = "raised"
    /\ tpc = "failed"
    /\ calls # <<>>
    /\ results # <<>>

-----------------------------------------------------------------------------
(* Round trip and buffering of the tokenizer *)

\* b.lstrip()
LStrip(b) ==
    LET keep == {i \in 1..Len(b) : b[i] \notin Whitespace}
    IN  IF keep = {} THEN <<>> ELSE SubSeq(b, SetMin(keep), Len(b))

\* `bytes` is the chunks in order, with nothing but whitespace before, between
\* and after them
RECURSIVE ChunksCover(_, _)
ChunksCover(bytes, chunks) ==
    IF chunks = <<>> THEN Strip(bytes) = <<>>
    ELSE LET r == LStrip(bytes)
         IN  /\ StartsWith(r, Head(chunks))
             /\ ChunksCover(SubSeq(r, Len(Head(chunks)) + 1, Len(r)), Tail(chunks))

\* The content from its first header on: the first line that starts with the
\* marker when streaming, the first occurrence of the marker when splitting
FromFirstHeader ==
    IF StreamMode
    THEN LET ls == SplitLines(content)
             hl == HeaderLines(ls)
         IN  IF hl = <<>> THEN <<>> ELSE Join(SubSeq(ls, hl[1], Len(ls)))
    ELSE LET ps == SplitOn(content, Marker)
         IN  SubSeq(content, Len(ps[1]) + 1, Len(content))

\* C17 as stated: with no min_score the chunks, in order, are the whole content
\* up to whitespace around each chunk.
C17_RoundTrip ==
    (tpc = "exhausted" /\ min_score = None) => ChunksCover(content, yielded)

\* C17: with no min_score the chunks, in order, are the content from its first
\* header on, up to whitespace around each chunk; what precedes the first header
\* is in no chunk.
C17_RoundTripFromFirstHeader ==
    (tpc = "exhausted" /\ min_score = None)
        => ChunksCover(FromFirstHeader, yielded)

\* C17's case: two chunks read from a content that does not begin with a header
C17_Witness ==
    /\ tpc = "exhausted" /\ min_score = None
    /\ Len(yielded) >= 2
    /\ FromFirstHeader # content
    /\ Strip(content) # Strip(FromFirstHeader)

\* C18: while streaming with a min_score, after a header whose score is an
\* integer below min_score the line buffer holds no body line of that record.
C18_RejectedBodyNotBuffered ==
    (tpc = "stream" /\ min_score # None /\ current # <<>>
       /\ ScoreBelow(current[1], min_score[1]))
        => Len(current) = 1

-----------------------------------------------------------------------------
(* PyrionConfig: worker count, parallel threshold and logging *)

\* The variables of the chain reader and of the ranking, at rest
NoPipeline ==
    /\ content = <<>>
    /\ is_gzipped = FALSE
    /\ small = FALSE
    /\ min_score = None
    /\ max_chunks_per_call = MAX_CHUNKS_PER_CALL
    /\ tpc = "given"
    /\ parts = <<>>
    /\ lines = <<>>
    /\ current = <<>>
    /\ header_score_ok = TRUE
    /\ yielded = <<>>
    /\ turn = "done"
    /\ pending = <<>>
    /\ chunk_iter = <<>>
    /\ batch = <<>>
    /\ results = <<>>
    /\ calls = <<>>
    /\ handles = {}
    /\ collection = None
    /\ NoRanking

pipeline_vars == <<tpc, yielded, turn, pending, tok_locals, handles, file_vars,
                   chunk_iter, batch_vars, collection, rank_vars>>

\* the largest mp.cpu_count() tried
MaxCpu == 9

DEFAULT_CORE_CAP == 8
DEFAULT_MIN_ITEMS == 100

Min(a, b) == IF a < b THEN a ELSE b
Max(a, b) == IF a > b THEN a ELSE b

\* _detect_available_cores
detect_available_cores(cpu_count) == Max(1, cpu_count)

NullHandler == [kind |-> "Null", level |-> 0]
StreamHandler(level) == [kind |-> "Stream", level |-> level]

\* s.upper() on ASCII text
LowerCase == <<"a","b","c","d","e","f","g","h","i","j","k","l","m",
               "n","o","p","q","r","s","t","u","v","w","x","y","z">>
UpperCase == <<"A","B","C","D","E","F","G","H","I","J","K","L","M",
               "N","O","P","Q","R","S","T","U","V","W","X","Y","Z">>
UpperChar(c) ==
    IF \E i \in 1..26 : LowerCase[i] = c
    THEN UpperCase[CHOOSE i \in 1..26 : LowerCase[i] = c]
    ELSE c
Upper(s) == [i \in 1..Len(s) |-> UpperChar(s[i])]

\* level_map of set_log_level, as the set of its items
level_map ==
    { << <<"D","E","B","U","G">>, 10 >>,
      << <<"I","N","F","O">>, 20 >>,
      << <<"W","A","R","N","I","N","G">>, 30 >>,
      << <<"E","R","R","O","R">>, 40 >>,
      << <<"C","R","I","T","I","C","A","L">>, 50 >> }

\* the max_cores setter storing the value before it validates it
max_cores_setter_assign_first(cfg, value) ==
    [config |-> [cfg EXCEPT !.max_cores = value],
     raised |-> value < 0 \/ value > cfg.available_cores]

\* The max_cores setter: the configuration after the call and whether it raised
max_cores_setter(cfg, value) ==
    IF value < 0 THEN [config |-> cfg, raised |-> TRUE]
    ELSE IF value > cfg.available_cores THEN [config |-> cfg, raised |-> TRUE]
    ELSE [config |-> [cfg EXCEPT !.max_cores = value], raised |-> FALSE]

\* The min_items_for_parallel setter
min_items_for_parallel_setter(cfg, value) ==
    IF value < 0 THEN [config |-> cfg, raised |-> TRUE]
    ELSE [config |-> [cfg EXCEPT !.min_items_for_parallel = value],
          raised |-> FALSE]

disable_parallel(cfg) == [cfg EXCEPT !.max_cores = 0]

\* enable_parallel storing its argument without the setter
enable_parallel_unchecked(cfg, max_cores) ==
    IF max_cores = None
    THEN [config |-> [cfg EXCEPT !.max_cores =
                         Min(cfg.available_cores, DEFAULT_CORE_CAP)],
          raised |-> FALSE]
    ELSE [config |-> [cfg EXCEPT !.max_cores = max_cores[1]], raised |-> FALSE]

\* enable_parallel(max_cores), max_cores an Optional
enable_parallel(cfg, max_cores) ==
    IF max_cores = None
    THEN [config |-> [cfg EXCEPT !.max_cores =
                         Min(cfg.available_cores, DEFAULT_CORE_CAP)],
          raised |-> FALSE]
    ELSE max_cores_setter(cfg, max_cores[1])

\* _setup_default_logging on the "pyrion" logger
setup_default_logging(lg) ==
    IF lg.handlers = <<>>
    THEN [level |-> 10, handlers |-> Append(lg.handlers, NullHandler)]
    ELSE lg

IsNull(h) == h.kind = "Null"

\* set_log_level(level): level is <<"str", text>> or <<"int", number>>.
\* The configuration and the logger after the call and whether it raised.
set_log_level(cfg, lg, level) ==
    LET is_str == level[1] = "str"
        name == Upper(level[2])
        known == \E it \in level_map : it[1] = name
    IN  IF is_str /\ ~known
        THEN [config |-> cfg, logger |-> lg, raised |-> TRUE]
        ELSE LET lvl == IF is_str
                        THEN (CHOOSE it \in level_map : it[1] = name)[2]
                        ELSE level[2]
                 kept == SelectSeq(lg.handlers, IsNull)
                 hs == IF ~cfg.logger_configured
                       THEN Append(kept, StreamHandler(0))
                       ELSE kept
             IN  [config |-> [cfg EXCEPT !.logger_configured = TRUE],
                  logger |-> [level |-> lvl,
                              handlers |-> [i \in 1..Len(hs) |->
                                  IF IsNull(hs[i]) THEN hs[i]
                                  ELSE [hs[i] EXCEPT !.level = lvl]]],
                  raised |-> FALSE]

\* summary()
summary(cfg) ==
    [available_cores |-> cfg.available_cores,
     max_cores |-> cfg.max_cores,
     min_items_for_parallel |-> cfg.min_items_for_parallel,
     parallel_enabled |-> cfg.max_cores > 0,
     logging_configured |-> cfg.logger_configured]

\* PyrionConfig() in a process whose "pyrion" logger has no handler yet
PyrionConfig(cpu_count) ==
    LET available == detect_available_cores(cpu_count)
    IN  [config |-> [available_cores |-> available,
                     max_cores |-> Min(available, DEFAULT_CORE_CAP),
                     min_items_for_parallel |-> DEFAULT_MIN_ITEMS,
                     logger_configured |-> FALSE],
         logger |-> setup_default_logging([level |-> 0, handlers |-> <<>>])]

\* The arguments tried
CoreRequests == (0 - 1)..(MaxCpu + 1)
ItemRequests == {0 - 1, 0, 50}
LevelRequests ==
    { <<"str", <<"D","E","B","U","G">> >>,
      <<"str", <<"i","n","f","o">> >>,
      <<"str", <<"W","a","r","n","i","n","g">> >>,
      <<"str", <<"v","e","r","b","o","s","e">> >>,
      <<"str", <<"W","A","R","N">> >>,
      <<"str", <<>> >>,
      <<"int", 40>>,
      <<"int", 15>> }

Call(op, arg, raised) == [op |-> op, arg |-> arg, raised |-> raised]

InitConfig ==
    /\ \E cpu_count \in 1..MaxCpu :
          /\ config = PyrionConfig(cpu_count).config
          /\ logger = PyrionConfig(cpu_count).logger
    /\ last_call = Call("PyrionConfig", None, FALSE)
    /\ NoPipeline
    /\ NoProjection
    /\ described = <<>>

SetMaxCores ==
    /\ \E cores \in CoreRequests :
          LET r == max_cores_setter(config, cores)
          IN  /\ config' = r.config
              /\ last_call' = Call("set_max_cores", Some(cores), r.raised)
    /\ UNCHANGED <<logger, pipeline_vars, project_vars, described>>

SetMinItemsForParallel ==
    /\ \E items \in ItemRequests :
          LET r == min_items_for_parallel_setter(config, items)
          IN  /\ config' = r.config
              /\ last_call' = Call("set_min_items_for_parallel", Some(items),
                                   r.raised)
    /\ UNCHANGED <<logger, pipeline_vars, project_vars, described>>

DisableParallel ==
    /\ config' = disable_parallel(config)
    /\ last_call' = Call("disable_parallel", None, FALSE)
    /\ UNCHANGED <<logger, pipeline_vars, project_vars, described>>

EnableParallel ==
    /\ \E max_cores \in {None} \cup {Some(n) : n \in CoreRequests} :
          LET r == enable_parallel(config, max_cores)
          IN  /\ config' = r.config
              /\ last_call' = Call("enable_parallel", max_cores, r.raised)
    /\ UNCHANGED <<logger, pipeline_vars, project_vars, described>>

SetLogLevel ==
    /\ \E level \in LevelRequests :
          LET r == set_log_level(config, logger, level)
          IN  /\ config' = r.config
              /\ logger' = r.logger
              /\ last_call' = Call("set_log_level", Some(level), r.raised)
    /\ UNCHANGED <<pipeline_vars, project_vars, described>>

NextConfig ==
    \/ SetMaxCores
    \/ SetMinItemsForParallel
    \/ DisableParallel
    \/ EnableParallel
    \/ SetLogLevel

SpecConfig == InitConfig /\ [][NextConfig]_vars

\* C13: after any calls of set_max_cores, disable_parallel and enable_parallel,
\* accepted or rejected, 0 <= max_cores <= available_cores; disable_parallel
\* leaves 0, enable_parallel() leaves min(available_cores, 8), and
\* summary()["parallel_enabled"] is true exactly when max_cores > 0.
C13_WorkerCount ==
    /\ 0 <= config.max_cores
    /\ config.max_cores <= config.available_cores
    /\ last_call.op = "disable_parallel" => config.max_cores = 0
    /\ (last_call.op = "enable_parallel" /\ last_call.arg = None)
          => /\ config.max_cores <= 8
             /\ config.max_cores <= config.available_cores
             /\ config.max_cores = 8 \/ config.max_cores = config.available_cores
    /\ summary(config).parallel_enabled <=> config.max_cores > 0

\* C13's case: an enable_parallel(n) above the available cores was rejected
\* while parallel processing was disabled
C13_Witness ==
    /\ last_call.op = "enable_parallel"
    /\ last_call.raised
    /\ last_call.arg # None
    /\ last_call.arg[1] > config.available_cores
    /\ config.max_cores = 0
    /\ ~summary(config).parallel_enabled

\* The calls C14 names as invalid
InvalidCall(cfg, call) ==
    \/ /\ call.op \in {"set_max_cores", "enable_parallel"}
       /\ call.arg # None
       /\ call.arg[1] < 0 \/ call.arg[1] > cfg.available_cores
    \/ /\ call.op = "set_min_items_for_parallel"
       /\ call.arg[1] < 0
    \/ /\ call.op = "set_log_level"
       /\ call.arg[1][1] = "str"
       /\ Upper(call.arg[1][2]) \notin {it[1] : it \in level_map}

\* C14: each invalid call raises, and a call that raises leaves max_cores,
\* min_items_for_parallel, the logger-configured flag, the logger's level and
\* its handlers as they were.
C14_AtomicValidation ==
    /\ [](InvalidCall(config, last_call) => last_call.raised)
    /\ [][last_call'.raised => (config' = config /\ logger' = logger)]_vars

\* C14's case: a rejected log level after logging was configured and the
\* defaults were changed
C14_Witness ==
    /\ last_call.op = "set_log_level"
    /\ last_call.raised
    /\ config.logger_configured
    /\ config.max_cores # Min(config.available_cores, DEFAULT_CORE_CAP)
    /\ config.min_items_for_parallel # DEFAULT_MIN_ITEMS

StreamHandlers(lg) == {i \in 1..Len(lg.handlers) : ~IsNull(lg.handlers[i])}

\* C20: once set_log_level has succeeded (logging_configured is true) the
\* logger has exactly one non-Null handler, and that handler's level and the
\* logger's level are the level of the most recent successful call.
C20_OneStreamHandler ==
    summary(config).logging_configured
        => /\ Cardinality(StreamHandlers(logger)) = 1
           /\ \A i \in StreamHandlers(logger) :
                 logger.handlers[i].level = logger.level

-----------------------------------------------------------------------------
(* Projection of target intervals through a block list (spec 4.5).
   A block is <<t_start, t_end, q_start, q_end>>, an interval <<s, e>>. *)

\* the largest coordinate of the enumerated block lists and intervals
MaxCoord == 5

\* Step 1, ordered search: the first index in lo..hi-1 whose block ends after s,
\* hi if there is none
RECURSIVE first_block(_, _, _, _)
first_block(blocks, s, lo, hi) ==
    IF lo >= hi THEN lo
    ELSE LET mid == (lo + hi) \div 2
         IN  IF blocks[mid][2] <= s
             THEN first_block(blocks, s, mid + 1, hi)
             ELSE first_block(blocks, s, lo, mid)

\* clip_interval leaving the input interval as it is
clip_interval_whole(s, e, block) == <<s, e>>

\* Step 2: [cs, ce) = [max(s, t_start), min(e, t_end))
clip_interval(s, e, block) == <<Max(s, block[1]), Min(e, block[2])>>

\* Step 3: the clipped interval on the query axis
map_interval(c, block) ==
    <<block[3] + (c[1] - block[1]), block[3] + (c[2] - block[1])>>

\* project_from also taking a block that starts where the interval ends
RECURSIVE project_from_inclusive(_, _, _, _)
project_from_inclusive(blocks, i, s, e) ==
    IF i > Len(blocks) THEN <<>>
    ELSE IF blocks[i][1] > e THEN <<>>
    ELSE <<map_interval(clip_interval(s, e, blocks[i]), blocks[i])>>
             \o project_from_inclusive(blocks, i + 1, s, e)

\* Steps 2-4 over the blocks from index i on, while they start before e
RECURSIVE project_from(_, _, _, _)
project_from(blocks, i, s, e) ==
    IF i > Len(blocks) THEN <<>>
    ELSE IF blocks[i][1] >= e THEN <<>>
    ELSE <<map_interval(clip_interval(s, e, blocks[i]), blocks[i])>>
             \o project_from(blocks, i + 1, s, e)

\* project(block_list, query_intervals): one output sequence per interval
project(blocks, ivs) ==
    [n \in 1..Len(ivs) |->
        project_from(blocks,
                     first_block(blocks, ivs[n][1], 1, Len(blocks) + 1),
                     ivs[n][1], ivs[n][2])]

\* The block list and the intervals of the basic projection test
TestBlocks == << <<100, 200, 1000, 1100>>, <<300, 400, 1200, 1300>> >>
TestIntervals ==
    { <<150, 180>>, <<350, 380>>, <<190, 210>>, <<220, 280>>,
      <<200, 300>>, <<50, 100>>, <<100, 400>>, <<400, 450>> }

\* Enumerated block lists: ascending by target start, not overlapping, each
\* block as long on the query axis as on the target axis
QueryStarts == {10, 20}
Ordered == {p \in (0..MaxCoord) \X (0..MaxCoord) : p[1] < p[2]}
SmallBlocks ==
    {<<p[1], p[2], q, q + (p[2] - p[1])>> : p \in Ordered, q \in QueryStarts}
BlockLists ==
    {<<>>} \cup {<<b>> : b \in SmallBlocks}
           \cup {<<p[1], p[2]>> :
                    p \in {x \in SmallBlocks \X SmallBlocks : x[2][1] >= x[1][2]}}
SmallIntervals == Ordered
IntervalLists(S) ==
    {<<>>} \cup {<<i>> : i \in S} \cup {<<i, j>> : i \in S, j \in S}

InitProj ==
    /\ chain_blocks \in BlockLists \cup {TestBlocks}
    /\ intervals = <<>>
    /\ projected = None
    /\ NoPipeline
    /\ NoConfig
    /\ described = <<>>

\* A call of project on the block list
Project ==
    /\ projected = None
    /\ \E ivs \in IF chain_blocks = TestBlocks
                  THEN IntervalLists(TestIntervals)
                  ELSE IntervalLists(SmallIntervals) :
          /\ intervals' = ivs
          /\ projected' = Some(project(chain_blocks, ivs))
    /\ UNCHANGED <<chain_blocks, pipeline_vars, config_vars, described>>

NextProj == Project

SpecProj == InitProj /\ [][NextProj]_vars

\* The blocks whose target range has a point in common with [s, e)
Hit(blocks, iv) ==
    {k \in 1..Len(blocks) :
        \E x \in SetMin({iv[1], blocks[k][1]})..(SetMax({iv[2], blocks[k][2]})) :
            /\ iv[1] <= x /\ x < iv[2]
            /\ blocks[k][1] <= x /\ x < blocks[k][2]}

\* the j-th smallest element of a set of indices
Nth(S, j) == CHOOSE k \in S : Cardinality({h \in S : h <= k}) = j

\* C11: project returns one output sequence per input interval, in input
\* order; the output for [s, e) is, in ascending target order, one interval
\* (q_start + (cs - t_start), q_start + (ce - t_start)) per block whose target
\* range intersects [s, e), cs = max(s, t_start), ce = min(e, t_end); the
\* basic test's blocks give the outputs of the concrete scenario.
C11_ProjectionResult ==
    projected # None =>
        LET out == projected[1]
        IN  /\ Len(out) = Len(intervals)
            /\ \A n \in 1..Len(intervals) :
                  LET iv == intervals[n]
                      hit == Hit(chain_blocks, iv)
                  IN  /\ Len(out[n]) = Cardinality(hit)
                      /\ \A j \in 1..Len(out[n]) :
                            LET b == chain_blocks[Nth(hit, j)]
                                cs == IF iv[1] > b[1] THEN iv[1] ELSE b[1]
                                ce == IF iv[2] < b[2] THEN iv[2] ELSE b[2]
                            IN  out[n][j] = <<b[3] + (cs - b[1]),
                                              b[3] + (ce - b[1])>>
                      /\ chain_blocks = TestBlocks =>
                            /\ iv = <<150, 180>> => out[n] = << <<1050, 1080>> >>
                            /\ iv = <<350, 380>> => out[n] = << <<1250, 1280>> >>
                            /\ iv = <<190, 210>> => out[n] = << <<1090, 1100>> >>

\* C11's case: an interval that starts inside one block, crosses the gap and
\* ends inside the next, after another interval
C11_Witness ==
    /\ projected # None
    /\ Len(intervals) = 2
    /\ Len(chain_blocks) = 2
    /\ chain_blocks[1][2] < chain_blocks[2][1]
    /\ intervals[2][1] > chain_blocks[1][1]
    /\ intervals[2][1] < chain_blocks[1][2]
    /\ intervals[2][2] > chain_blocks[2][1]
    /\ intervals[2][2] < chain_blocks[2][2]
    /\ Len(projected[1][2]) = 2

\* C12: a block contributes to the output of [s, e) only if s < t_end and
\* e > t_start, so the output has one interval per such block and never a
\* zero-length one; an interval wholly in a gap or wholly outside the target
\* range gives an empty output sequence.
C12_EdgePolicy ==
    projected # None =>
        \A n \in 1..Len(intervals) :
            LET iv == intervals[n]
                out == projected[1][n]
                meets == {k \in 1..Len(chain_blocks) :
                             iv[1] < chain_blocks[k][2] /\ iv[2] > chain_blocks[k][1]}
            IN  /\ Len(out) = Cardinality(meets)
                /\ \A j \in 1..Len(out) : out[j][1] < out[j][2]
                /\ (\A k \in 1..Len(chain_blocks) :
                       iv[2] <= chain_blocks[k][1] \/ iv[1] >= chain_blocks[k][2])
                      => out = <<>>

\* C12's case: an interval that ends exactly where the second block starts and
\* overlaps the first, and one that lies wholly in the gap
C12_Witness ==
    /\ projected # None
    /\ Len(intervals) = 2
    /\ Len(chain_blocks) = 2
    /\ intervals[1][2] = chain_blocks[2][1]
    /\ intervals[1][1] < chain_blocks[1][2]
    /\ Len(projected[1][1]) = 1
    /\ intervals[2][1] >= chain_blocks[1][2]
    /\ intervals[2][2] <= chain_blocks[2][1]
    /\ projected[1][2] = <<>>

-----------------------------------------------------------------------------
(* The record parser on chunks written from their numbers (spec 4.3).
   A description is the target start T and query start Q of the header, the
   body lines <<size, tgap, qgap>> and what is wrong with the chunk. *)

\* the largest gap between two blocks
MaxGap == 1

DigitChars == <<"0", "1", "2", "3", "4", "5", "6", "7", "8", "9">>

\* str(n) for n >= 0
RECURSIVE ToDigits(_)
ToDigits(n) ==
    IF n < 10 THEN <<DigitChars[n + 1]>>
    ELSE ToDigits(n \div 10) \o <<DigitChars[(n % 10) + 1]>>

Defects == {"none", "no_body", "negative_size", "bad_header_field",
            "bad_body_field"}

\* The body line i of a description, as text
BodyLine(d, i) ==
    LET l == d.lines[i]
        size == IF i = 1 /\ d.defect = "negative_size"
                THEN <<"-">> \o ToDigits(l[1])
                ELSE IF i = 1 /\ d.defect = "bad_body_field" THEN <<"x">>
                ELSE ToDigits(l[1])
    IN  IF i = Len(d.lines) THEN size
        ELSE size \o <<" ">> \o ToDigits(l[2]) \o <<" ">> \o ToDigits(l[3])

\* The chunk of a description with record id `id`, as the tokenizer yields it
ChunkText(d, id) ==
    LET t_start == IF d.defect = "bad_header_field" THEN <<"x">>
                   ELSE ToDigits(d.T)
        header == Marker \o <<"5", " ", "a", " ", "9", "9", " ", "+", " ">>
                    \o t_start \o <<" ", "9", "9", " ", "b", " ", "9", "9", " ",
                                    "+", " ">>
                    \o ToDigits(d.Q) \o <<" ", "9", "9", " ">> \o ToDigits(id)
    IN  Strip(Join(<<header \o <<"\n">>>>
                   \o [i \in 1..Len(d.lines) |-> BodyLine(d, i) \o <<"\n">>]))

BlockSizes == {1, 2}
Gaps == 0..MaxGap
LineLists ==
    {<< <<s, 0, 0>> >> : s \in BlockSizes}
    \cup {<< <<s, tg, qg>>, <<u, 0, 0>> >> :
             s \in BlockSizes, tg \in Gaps, qg \in Gaps, u \in BlockSizes}
Descriptions ==
    {[T |-> 3, Q |-> q, lines |-> ls, defect |-> df] :
        q \in {0, 12}, ls \in LineLists,
        df \in Defects \ {"no_body"}}
    \cup {[T |-> 3, Q |-> q, lines |-> <<>>, defect |-> "no_body"] :
             q \in {0, 12}}
\* One chunk of each kind, to stand next to any other in a batch
Companions ==
    {d \in Descriptions :
        d.Q = 0 /\ (d.lines = <<>> \/ d.lines = << <<1, 0, 0>> >>)}
DescribedBatches ==
    {<<d>> : d \in Descriptions}
    \cup {<<d, e>> : d \in Descriptions, e \in Companions}
    \cup {<<e, d>> : d \in Descriptions, e \in Companions}

InitParse ==
    /\ described \in DescribedBatches
    /\ batch = [i \in 1..Len(described) |-> ChunkText(described[i], i)]
    /\ results = <<>>
    /\ calls = <<>>
    /\ content = <<>>
    /\ is_gzipped = FALSE
    /\ small = FALSE
    /\ min_score = None
    /\ max_chunks_per_call = MAX_CHUNKS_PER_CALL
    /\ tpc = "given"
    /\ parts = <<>>
    /\ lines = <<>>
    /\ current = <<>>
    /\ header_score_ok = TRUE
    /\ yielded = <<>>
    /\ turn = "done"
    /\ pending = <<>>
    /\ chunk_iter = <<>>
    /\ handles = {}
    /\ collection = None
    /\ NoRanking
    /\ NoConfig
    /\ NoProjection

\* One call of the parser on the batch
ParseBatch ==
    /\ calls = <<>>
    /\ LET r == flush_batch(batch, results, calls, min_score)
       IN  /\ batch' = r.batch
           /\ results' = r.results
           /\ calls' = r.calls
    /\ UNCHANGED <<tpc, yielded, turn, pending, tok_locals, handles, file_vars,
                   chunk_iter, collection, rank_vars, ext_vars>>

NextParse == ParseBatch

SpecParse == InitParse /\ [][NextParse]_vars

\* The sum of size + gap (field g) over the lines before line i
RECURSIVE Offset(_, _, _)
Offset(ls, i, g) ==
    IF i = 1 THEN 0
    ELSE Offset(ls, i - 1, g) + ls[i - 1][1] + ls[i - 1][g]

\* The blocks C19 states for a description
StatedBlocks(d) ==
    [i \in 1..Len(d.lines) |->
        <<d.T + Offset(d.lines, i, 2),
          d.T + Offset(d.lines, i, 2) + d.lines[i][1],
          d.Q + Offset(d.lines, i, 3),
          d.Q + Offset(d.lines, i, 3) + d.lines[i][1]>>]

\* C19: block i of a record is (T_i, T_i + size_i, Q_i, Q_i + size_i) with
\* T_0 = T, Q_0 = Q, T_{i+1} = T_i + size_i + tgap_i, Q_{i+1} = Q_i + size_i +
\* qgap_i, so blocks ascend without overlap on both axes; a chunk with no body
\* line, a negative size or a non-numeric numeric field gives no record and is
\* left out of the batch result while the other chunks are still parsed.
C19_BlockReconstruction ==
    calls # <<>> =>
        LET good == {i \in 1..Len(described) : described[i].defect = "none"}
        IN  /\ Len(results) = Cardinality(good)
            /\ \A k \in 1..Len(results) :
                  LET i == Nth(good, k)
                      bs == results[k].blocks
                  IN  /\ results[k].chain_id = i
                      /\ bs = StatedBlocks(described[i])
                      /\ \A x \in 1..Len(bs) : \A y \in 1..Len(bs) :
                            x < y => bs[x][2] <= bs[y][1] /\ bs[x][4] <= bs[y][3]

\* C19's case: a chunk with a negative size before a chunk of two blocks with
\* different gaps on the two axes
C19_Witness ==
    /\ calls # <<>>
    /\ Len(described) = 2
    /\ described[1].defect = "negative_size"
    /\ described[2].defect = "none"
    /\ Len(described[2].lines) = 2
    /\ described[2].lines[1][2] # described[2].lines[1][3]
    /\ described[2].Q = 12
    /\ Len(results) = 1
    /\ Len(results[1].blocks) = 2

-----------------------------------------------------------------------------
(* The result of _header_meets_min_score, kept in header_score_ok *)

\* The score field of a header line: Some(value), or None when the line has no
\* second field or int() rejects it
ScoreOf(header_line) ==
    LET f == SplitWhitespace(header_line)
    IN  IF Len(f) >= 2 THEN ParseInt(f[2]) ELSE None

\* the streaming loop has just applied _header_meets_min_score to current[1]
HeaderChecked == tpc = "stream" /\ min_score # None /\ current # <<>>

-----------------------------------------------------------------------------
(* Ranking with a negative limit *)

\* C22: with a limit below 0 no truncation is applied:
\* sort_alignments_by_score returns the full ranking of all records.
C22_NegativeLimitFullRanking ==
    (ranked /\ max_elems # None /\ max_elems[1] < 0)
        => /\ Len(sorted_tuples) = Len(alignments)
           /\ sorted_tuples = SortedByScore([i \in 1..Len(alignments) |->
                                               ScoreTuple(alignments[i])])

-----------------------------------------------------------------------------
(* The fallback from the gzip fast path to the stream *)

====
